---- MODULE Spec2Model ----
(***************************************************************************)
(* A model of internal/vis.py and internal/image.py of refnerf-pl:         *)
(*   create_videos        (video assembly from per-frame images)           *)
(*   weighted_percentile, visualize_cmap, matte                            *)
(*   color_correct                                                         *)
(*   visualize_rays                                                        *)
(* Each function is a small state machine of its own, with its own         *)
(* specification; the variables of the other functions stay idle.          *)
(* Real numbers are exact rationals <<n, d>> in lowest terms (d > 0).      *)
(***************************************************************************)
EXTENDS Integers, Sequences, FiniteSets, TLC

(***************************************************************************)
(* State.                                                                  *)
(***************************************************************************)
\* create_videos
VARIABLES
  num_frames,    \* argument num_frames
  missing,       \* the frame files of out_dir that do not exist
  v_pc,          \* "start" | "tags" | "frames" | "done" | "failed"
  tag_it,        \* position of the loop `for k in [...]` (1-based)
  frame_it,      \* position of the loop `for idx in range(num_frames)`
  idx,           \* the local idx
  open_writers,  \* the tags whose VideoWriter is open
  opened,        \* the tags whose VideoWriter was opened, in order
  written,       \* per tag, the frame indices passed to writer.add_image
  checked,       \* the paths passed to utils.file_exists so far
  loaded,        \* the paths passed to utils.load_img so far
  skipped,       \* the tags left by `continue`
  v_err          \* the exception that ended the call, or NoErr

videoVars == <<num_frames, missing, v_pc, tag_it, frame_it, idx, open_writers,
               opened, written, checked, loaded, skipped, v_err>>

\* weighted_percentile
VARIABLES
  wp_x,        \* argument x, flattened
  wp_w,        \* argument weight, flattened
  wp_ps,       \* argument ps
  wp_sorted,   \* argument assume_sorted
  wp_tie,      \* the order torch.argsort gives equal values ("asc" | "desc")
  wp_pc,       \* "call" | "done"
  wp_out       \* the returned percentiles

pctVars == <<wp_x, wp_w, wp_ps, wp_sorted, wp_tie, wp_pc, wp_out>>

\* matte
VARIABLES
  mt_vis,      \* argument vis: [shape |-> <<H, W, C>>, data |-> flat values]
  mt_acc,      \* argument acc: [shape |-> <<H, W>>, data |-> flat values]
  mt_dark,     \* argument dark
  mt_light,    \* argument light
  mt_width,    \* argument width
  mt_pc,       \* "call" | "done"
  mt_bg,       \* the local bg, the checkerboard
  mt_out       \* the returned image

matteVars == <<mt_vis, mt_acc, mt_dark, mt_light, mt_width, mt_pc, mt_bg, mt_out>>

\* visualize_cmap
VARIABLES
  cm_value,       \* argument value: [shape, data]
  cm_weight,      \* argument weight: [shape |-> <<H, W>>, data]
  cm_colormap,    \* argument colormap: "gray" or "none" (None)
  cm_lo,          \* argument lo: a number or None
  cm_hi,          \* argument hi: a number or None
  cm_percentile,  \* argument percentile
  cm_curve,       \* argument curve_fn: "identity" or "neg" (lambda x: -x)
  cm_modulus,     \* argument modulus: a number or None
  cm_matte,       \* argument matte_background
  cm_tie,         \* the order torch.argsort gives equal values
  cm_pc,          \* "call" | "bounds" | "scaled" | "done" | "failed"
  cm_lo_used,     \* the local lo after line 95
  cm_hi_used,     \* the local hi after line 95
  cm_scaled,      \* the local value after lines 98-103
  cm_out,         \* the returned image
  cm_err          \* the exception raised: "none" | "ValueError" | "TypeError"

cmapVars == <<cm_value, cm_weight, cm_colormap, cm_lo, cm_hi, cm_percentile,
              cm_curve, cm_modulus, cm_matte, cm_tie, cm_pc, cm_lo_used,
              cm_hi_used, cm_scaled, cm_out, cm_err>>

\* color_correct
VARIABLES
  cc_img_shape,   \* img.shape
  cc_ref_shape,   \* ref.shape
  cc_num_iters,   \* argument num_iters
  cc_pc,          \* "call" | "loop" | "solve" | "done" | "failed"
  cc_iter,        \* the passes of `for _ in range(num_iters)` completed
  cc_c,           \* position of the loop `for c in range(num_channels)` of the solves
  cc_a_cols,      \* the columns of the a_mat of the current pass
  cc_built,       \* the feature matrices a_mat built so far
  cc_solved,      \* the torch.linalg.lstsq calls made so far
  cc_out_shape,   \* the shape of the returned image
  cc_err          \* the exception raised: "none" | "ValueError" | "AssertionError"

colorVars == <<cc_img_shape, cc_ref_shape, cc_num_iters, cc_pc, cc_iter, cc_c,
               cc_a_cols, cc_built, cc_solved, cc_out_shape, cc_err>>

\* visualize_rays
VARIABLES
  ry_dist,         \* argument dist: per level, per ray, the sample edges
  ry_weights,      \* argument weights: per level, per ray, the sample weights
  ry_rgbs,         \* argument rgbs: per level, per ray, the sample colors
  ry_dist_range,   \* argument dist_range
  ry_accumulate,   \* argument accumulate
  ry_renormalize,  \* argument renormalize
  ry_resolution,   \* argument resolution
  ry_bg_color,     \* argument bg_color
  ry_pc,           \* "call" | "stacked" | "scaled" | "tiled" | "done" | "failed"
  ry_rgb,          \* the local vis_rgb: [shape, data], data of color tuples
  ry_alpha,        \* the local vis_alpha: [shape, data]
  ry_src,          \* for each element of vis_alpha, the <<ray, level>> it was
                   \* resampled from, or Pad for an inserted background pixel
  ry_vis,          \* the returned vis
  ry_dropped,      \* the ry_src of the elements removed by vis_alpha[:-1]
  ry_err           \* the exception raised: "none" | "TypeError" | "RuntimeError"

rayVars == <<ry_dist, ry_weights, ry_rgbs, ry_dist_range, ry_accumulate,
             ry_renormalize, ry_resolution, ry_bg_color, ry_pc, ry_rgb,
             ry_alpha, ry_src, ry_vis, ry_dropped, ry_err>>

vars == <<videoVars, pctVars, matteVars, cmapVars, colorVars, rayVars>>

notVideo == <<pctVars, matteVars, cmapVars, colorVars, rayVars>>
notPct == <<videoVars, matteVars, cmapVars, colorVars, rayVars>>
notMatte == <<videoVars, pctVars, cmapVars, colorVars, rayVars>>
notCmap == <<videoVars, pctVars, matteVars, colorVars, rayVars>>
notColor == <<videoVars, pctVars, matteVars, cmapVars, rayVars>>
notRays == <<videoVars, pctVars, matteVars, cmapVars, colorVars>>

(***************************************************************************)
(* Exact rational arithmetic.                                              *)
(***************************************************************************)
RECURSIVE Gcd(_, _)
Gcd(a, b) == IF b = 0 THEN a ELSE Gcd(b, a % b)

Abs(n) == IF n < 0 THEN -n ELSE n

Rat(n, d) ==
  LET s == IF d < 0 THEN -1 ELSE 1
      g == Gcd(Abs(n), Abs(d))
  IN  IF n = 0 THEN <<0, 1>> ELSE <<(s * n) \div g, (s * d) \div g>>

R(n) == <<n, 1>>

\* The numerators of a and b over their least common denominator.
Common(a, b) ==
  LET g == Gcd(a[2], b[2])
  IN  [na |-> a[1] * (b[2] \div g), nb |-> b[1] * (a[2] \div g),
       d |-> (a[2] \div g) * b[2]]

RAdd(a, b) == LET c == Common(a, b) IN Rat(c.na + c.nb, c.d)
RSub(a, b) == LET c == Common(a, b) IN Rat(c.na - c.nb, c.d)
RMul(a, b) ==
  LET x == Rat(a[1], b[2])
      y == Rat(b[1], a[2])
  IN  <<x[1] * y[1], x[2] * y[2]>>
RInv(a) == IF a[1] < 0 THEN <<-a[2], -a[1]>> ELSE <<a[2], a[1]>>
RDiv(a, b) == RMul(a, RInv(b))
RLe(a, b) == LET c == Common(a, b) IN c.na <= c.nb
RLt(a, b) == LET c == Common(a, b) IN c.na < c.nb
RMin(a, b) == IF RLe(a, b) THEN a ELSE b
RMax(a, b) == IF RLe(a, b) THEN b ELSE a
RAbs(a) == <<Abs(a[1]), a[2]>>
RClip(a, lo, hi) == RMin(RMax(a, lo), hi)

(***************************************************************************)
(* create_videos (internal/vis.py).                                        *)
(***************************************************************************)
\* Bounds of the model of create_videos.
MaxFrames == 3
MaxMissing == 2

Tags == <<"color", "diffuse", "specular", "normals_pred", "acc",
          "distance_mean", "distance_median">>

TagSet == {Tags[i] : i \in 1..Len(Tags)}

PngTags == {"color", "diffuse", "specular", "normals_pred"}

FileExt(k) == IF k \in PngTags THEN "png" ELSE "tiff"

\* os.path.join(out_dir, f'{k}_{idx_to_str(idx)}.{file_ext}'): the file is
\* identified by its tag, its index and its extension.
ImgFile(k, i) == [tag |-> k, idx |-> i, ext |-> FileExt(k)]

DepthFile == [tag |-> "distance_mean", idx |-> 0, ext |-> "tiff"]

NoErr == [kind |-> "none"]

file_exists(f) == f \notin missing

\* utils.load_img on a path: the loader's own failure when the file is absent.
LoadFails(f) == f \in missing

\* The files out_dir may hold for a call with n frames.
FrameFiles(n) ==
  {ImgFile(k, i) : k \in TagSet, i \in 0..(IF n = 0 THEN 0 ELSE n - 1)}

RECURSIVE SubsetsUpTo(_, _)
SubsetsUpTo(S, m) ==
  IF m = 0 THEN {{}}
  ELSE LET P == SubsetsUpTo(S, m - 1)
       IN  P \cup {T \cup {x} : T \in P, x \in S}

VideoIdle ==
  /\ num_frames = 0 /\ missing = {} /\ v_pc = "idle" /\ tag_it = 1
  /\ frame_it = 0 /\ idx = 0 /\ open_writers = {} /\ opened = <<>>
  /\ written = [k \in TagSet |-> <<>>] /\ checked = {} /\ loaded = <<>>
  /\ skipped = {} /\ v_err = NoErr

VideoInit ==
  /\ num_frames \in 0..MaxFrames
  /\ missing \in SubsetsUpTo(FrameFiles(num_frames), MaxMissing)
  /\ v_pc = "start" /\ tag_it = 1 /\ frame_it = 0 /\ idx = 0
  /\ open_writers = {} /\ opened = <<>>
  /\ written = [k \in TagSet |-> <<>>]
  /\ checked = {} /\ loaded = <<>> /\ skipped = {} /\ v_err = NoErr

\* Lines 309-315: the example frame is loaded with no existence check.
LoadDepthFrame ==
  /\ UNCHANGED notVideo
  /\ v_pc = "start"
  /\ loaded' = Append(loaded, DepthFile)
  /\ IF LoadFails(DepthFile)
       THEN /\ v_pc' = "failed"
            /\ v_err' = [kind |-> "IOError", file |-> DepthFile]
       ELSE /\ v_pc' = "tags"
            /\ v_err' = v_err
  /\ UNCHANGED <<num_frames, missing, tag_it, frame_it, idx, open_writers,
                 opened, written, checked, skipped>>

\* Lines 325-336: one pass of the tag loop up to the `with` statement.
TagMissing(file0) == ~file_exists(file0)

BeginTag ==
  /\ UNCHANGED notVideo
  /\ v_pc = "tags"
  /\ tag_it <= Len(Tags)
  /\ LET k == Tags[tag_it]
         file0 == ImgFile(k, 0)
     IN  /\ checked' = checked \cup {file0}
         /\ idx' = 0
         /\ IF TagMissing(file0)
              THEN /\ skipped' = skipped \cup {k}
                   /\ tag_it' = tag_it + 1
                   /\ UNCHANGED <<v_pc, frame_it, open_writers, opened>>
              ELSE /\ open_writers' = open_writers \cup {k}
                   /\ opened' = Append(opened, k)
                   /\ frame_it' = 0
                   /\ v_pc' = "frames"
                   /\ UNCHANGED <<skipped, tag_it>>
  /\ UNCHANGED <<num_frames, missing, written, loaded, v_err>>

\* The writer's __exit__, run when the `with` block is left (normally or by
\* an exception).
ExitWriter_Leak(ws, k) == ws

ExitWriter(ws, k) == ws \ {k}

\* Line 340: the check that guards the frame's load.
FrameMissing_Unchecked(img_file) == FALSE

FrameMissing(img_file) == ~file_exists(img_file)

\* Line 337: the value the loop gives idx at the pass that starts at position it.
RangeAt(it) == it

\* Lines 337-354: one pass of the frame loop.
FrameStep ==
  /\ UNCHANGED notVideo
  /\ v_pc = "frames"
  /\ frame_it < num_frames
  /\ LET k == Tags[tag_it]
         i == RangeAt(frame_it)
         img_file == ImgFile(k, i)
     IN  /\ checked' = checked \cup {img_file}
         /\ IF FrameMissing(img_file)
              THEN /\ v_err' = [kind |-> "ValueError", file |-> img_file]
                   /\ open_writers' = ExitWriter(open_writers, k)
                   /\ v_pc' = "failed"
                   /\ idx' = i
                   /\ UNCHANGED <<loaded, written, frame_it>>
              ELSE /\ loaded' = Append(loaded, img_file)
                   /\ IF LoadFails(img_file)
                        THEN /\ v_err' = [kind |-> "IOError", file |-> img_file]
                             /\ open_writers' = ExitWriter(open_writers, k)
                             /\ v_pc' = "failed"
                             /\ idx' = i
                             /\ UNCHANGED <<written, frame_it>>
                        ELSE /\ written' = [written EXCEPT ![k] = Append(@, i)]
                             /\ idx' = i + 1
                             /\ frame_it' = frame_it + 1
                             /\ UNCHANGED <<v_err, open_writers, v_pc>>
  /\ UNCHANGED <<num_frames, missing, tag_it, opened, skipped>>

\* The frame loop is exhausted: the `with` block ends and the tag loop goes on.
EndTag ==
  /\ UNCHANGED notVideo
  /\ v_pc = "frames"
  /\ frame_it >= num_frames
  /\ open_writers' = ExitWriter(open_writers, Tags[tag_it])
  /\ tag_it' = tag_it + 1
  /\ v_pc' = "tags"
  /\ UNCHANGED <<num_frames, missing, frame_it, idx, opened, written, checked,
                 loaded, skipped, v_err>>

\* The tag loop is exhausted: create_videos returns.
Return ==
  /\ UNCHANGED notVideo
  /\ v_pc = "tags"
  /\ tag_it > Len(Tags)
  /\ v_pc' = "done"
  /\ UNCHANGED <<num_frames, missing, tag_it, frame_it, idx, open_writers,
                 opened, written, checked, loaded, skipped, v_err>>

VideoNext == LoadDepthFrame \/ BeginTag \/ FrameStep \/ EndTag \/ Return


(***************************************************************************)
(* Claims about create_videos.                                             *)
(***************************************************************************)
Frames == 0..(num_frames - 1)

TagDone(k) == \E j \in 1..(tag_it - 1) : Tags[j] = k

C2_LoadsAreChecked ==
  /\ \A n \in 1..Len(loaded) : loaded[n] \in checked
  /\ v_err.kind # "IOError"

\* C9: at most one writer is open at a time; the frames appended to a tag's
\* writer are exactly 0, 1, 2, ... in this order, each once, and only while
\* that writer is open; the writer is closed whenever the call has ended,
\* normally or by a missing frame.
C9_SequentialWrites ==
  /\ Cardinality(open_writers) <= 1
  /\ \A k \in TagSet :
       /\ Len(written[k]) <= num_frames
       /\ \A n \in 1..Len(written[k]) : written[k][n] = n - 1
       /\ (written[k] # <<>> /\ k \notin open_writers) =>
            (TagDone(k) \/ v_pc = "failed")
  /\ \A k \in open_writers : v_pc = "frames" /\ k = Tags[tag_it]
  /\ v_pc \in {"done", "failed"} => open_writers = {}
  /\ \A k \in TagSet : (TagDone(k) /\ k \notin skipped) =>
       Len(written[k]) = num_frames

C9_Witness ==
  /\ v_pc = "failed"
  /\ v_err.kind = "ValueError"
  /\ Len(opened) >= 2
  /\ Len(written[opened[Len(opened)]]) = 2
  /\ open_writers = {}

(***************************************************************************)
(* weighted_percentile (internal/vis.py).  A tensor is its flat sequence   *)
(* of values (row-major), 1-based here.                                    *)
(***************************************************************************)
\* Bounds of the model of weighted_percentile.
MaxRange == 10
MaxLen == 2
MaxVal == 2
MaxWeight == 2

\* A sequence given by its elements, as a tuple.
AsTuple(s) == SubSeq(s, 1, Len(s))

\* torch.argsort(x): the position of each element in ascending order; the
\* order of equal elements is not specified by torch, tie names it.
SortPos(x, i, tie) ==
  1 + Cardinality({j \in 1..Len(x) :
        \/ RLt(x[j], x[i])
        \/ /\ x[j] = x[i]
           /\ IF tie = "asc" THEN j < i ELSE j > i})

ArgSort(x, tie) ==
  LET pos == AsTuple([i \in 1..Len(x) |-> SortPos(x, i, tie)])
  IN  AsTuple([q \in 1..Len(x) |-> CHOOSE i \in 1..Len(x) : pos[i] = q])

\* weight[torch.remainder(sortidx, len(weight))], 0-based in the code.
WrapIndex(i, n) == ((i - 1) % n) + 1

\* torch.cumsum(weight, dim=0)
RECURSIVE CumSum_Exclusive(_)
CumSum_Exclusive(w) ==
  IF Len(w) <= 1 THEN [i \in 1..Len(w) |-> R(0)]
  ELSE LET c == CumSum_Exclusive(SubSeq(w, 1, Len(w) - 1))
       IN  Append(c, RAdd(c[Len(c)], w[Len(w) - 1]))

RECURSIVE CumSum(_)
CumSum(w) ==
  IF Len(w) = 0 THEN <<>>
  ELSE IF Len(w) = 1 THEN <<w[1]>>
  ELSE LET c == CumSum(SubSeq(w, 1, Len(w) - 1))
       IN  Append(c, RAdd(c[Len(c)], w[Len(w)]))

\* math.interp(t, xp, fp): piecewise-linear interpolation of the curve
\* (xp, fp), xp non-decreasing, clamped to the end values outside xp.
Interp(t, xp, fp) ==
  LET n == Len(xp)
      below == {i \in 1..n : RLe(xp[i], t)}
      i == CHOOSE m \in below : \A o \in below : o <= m
  IN  IF below = {} THEN fp[1]
      ELSE IF i = n THEN fp[n]
      ELSE RAdd(fp[i], RDiv(RMul(RSub(t, xp[i]), RSub(fp[i + 1], fp[i])),
                            RSub(xp[i + 1], xp[i])))

\* ps * acc_w[-1] / 100
Target(p, total) == RDiv(RMul(p, total), R(100))

weighted_percentile(x, weight, ps, assume_sorted, tie) ==
  LET sortidx == ArgSort(x, tie)
      xs == IF assume_sorted THEN x
            ELSE AsTuple([q \in 1..Len(x) |-> x[sortidx[q]]])
      ws == IF assume_sorted THEN weight
            ELSE AsTuple([q \in 1..Len(x) |->
                            weight[WrapIndex(sortidx[q], Len(weight))]])
      acc_w == CumSum(ws)
  IN  [j \in 1..Len(ps) |-> Interp(Target(ps[j], acc_w[Len(acc_w)]), acc_w, xs)]

Range(n) == [i \in 1..n |-> R(i - 1)]

Uniform(n, u) == [i \in 1..n |-> R(u)]

IsSorted(x) == \A i \in 1..(Len(x) - 1) : RLe(x[i], x[i + 1])

SeqsUpTo(S, n) == UNION {[1..m -> S] : m \in 1..n}

ValueInputs ==
  {Range(n) : n \in 1..MaxRange} \cup SeqsUpTo({R(v) : v \in 0..MaxVal}, MaxLen)

WeightInputs(n) ==
  {Uniform(n, u) : u \in 1..MaxWeight}
    \cup SeqsUpTo({R(u) : u \in 0..MaxWeight}, IF n <= MaxLen THEN n ELSE 0)

\* [50 - percentile / 2, 50 + percentile / 2]
PercentilePair(percentile) ==
  <<RSub(R(50), RDiv(percentile, R(2))), RAdd(R(50), RDiv(percentile, R(2)))>>

PercentileInputs ==
  {<<R(p)>> : p \in {0, 25, 50, 75, 100}}
    \cup {PercentilePair(R(c)) : c \in {50, 99, 100}}

PctIdle ==
  /\ wp_x = <<>> /\ wp_w = <<>> /\ wp_ps = <<>> /\ wp_sorted = FALSE
  /\ wp_tie = "asc" /\ wp_pc = "idle" /\ wp_out = <<>>

PctInit ==
  /\ wp_x \in ValueInputs
  /\ wp_w \in WeightInputs(Len(wp_x))
  /\ wp_ps \in PercentileInputs
  /\ wp_sorted \in BOOLEAN
  /\ wp_sorted => IsSorted(wp_x) /\ Len(wp_w) = Len(wp_x)
  /\ wp_tie \in (IF wp_sorted THEN {"asc"} ELSE {"asc", "desc"})
  /\ wp_pc = "call"
  /\ wp_out = <<>>

WeightedPercentile ==
  /\ UNCHANGED notPct
  /\ wp_pc = "call"
  /\ wp_out' = weighted_percentile(wp_x, wp_w, wp_ps, wp_sorted, wp_tie)
  /\ wp_pc' = "done"
  /\ UNCHANGED <<wp_x, wp_w, wp_ps, wp_sorted, wp_tie>>

PctNext == WeightedPercentile

\* C5 (as stated): with equal weights on the sorted input 0, 1, ..., 9 the
\* 50th weighted percentile is the standard percentile 4.5.
C5_StandardPercentile ==
  (/\ wp_pc = "done"
   /\ wp_x = Range(10)
   /\ \E u \in 1..MaxWeight : wp_w = Uniform(10, u)
   /\ wp_ps = <<R(50)>>) => wp_out = <<Rat(9, 2)>>

\* C5 (amended): with equal weights on the sorted input 0, 1, ..., N-1 the
\* p-th weighted percentile is the linear interpolation of t = p/100 * cumw[N-1]
\* against the (cumulative weight, value) curve, which is max(0, p*N/100 - 1):
\* 4 for N = 10 and p = 50, not the standard percentile p/100 * (N-1) = 4.5.
C5_UniformInterpolation ==
  (/\ wp_pc = "done"
   /\ \E n \in 1..Len(wp_x) : wp_x = Range(n)
   /\ \E u \in 1..MaxWeight : wp_w = Uniform(Len(wp_x), u)) =>
     /\ \A j \in 1..Len(wp_ps) :
          wp_out[j] = RMax(R(0), RSub(RDiv(RMul(wp_ps[j], R(Len(wp_x))), R(100)), R(1)))
     /\ (Len(wp_x) = 10 /\ wp_ps = <<R(50)>>) => wp_out = <<R(4)>>

C5_Witness ==
  /\ wp_pc = "done"
  /\ wp_x = Range(10)
  /\ wp_w = Uniform(10, 1)
  /\ wp_ps = <<R(50)>>
  /\ wp_out = <<R(4)>>

(***************************************************************************)
(* matte (internal/vis.py).  An image is [shape, data], data the row-major *)
(* flat sequence of its values; rows and columns count from 0 as in the    *)
(* code.                                                                   *)
(***************************************************************************)
\* Bounds of the model of matte.
MaxSide == 4
MaxTile == 2

NoImg == [shape |-> <<>>, data |-> <<>>]

RECURSIVE Prod(_)
Prod(shape) == IF shape = <<>> THEN 1 ELSE Head(shape) * Prod(Tail(shape))

\* The value of a [H, W] image at (r, c) and of a [H, W, C] image at (r, c, ch).
At2(img, r, c) == img.data[r * img.shape[2] + c + 1]
At3(img, r, c, ch) == img.data[(r * img.shape[2] + c) * img.shape[3] + ch + 1]

\* (torch.arange(n) % (2 * width) // width)[i]
TileParity(i, width) == (i % (2 * width)) \div width

\* torch.logical_xor of two integers: true when exactly one is non-zero.
LogicalXor(a, b) == (a # 0) # (b # 0)

\* torch.where(bg_mask, light, dark) at one pixel.
Where_Swapped(mask, light, dark) == IF mask THEN dark ELSE light

Where(mask, light, dark) == IF mask THEN light ELSE dark

Checkerboard(h, w, dark, light, width) ==
  [shape |-> <<h, w>>,
   data |-> [n \in 1..(h * w) |->
      Where(LogicalXor(TileParity((n - 1) \div w, width),
                       TileParity((n - 1) % w, width)), light, dark)]]

\* vis * acc[:, :, None] + (bg * (1 - acc))[:, :, None]
matte(vis, acc, bg) ==
  LET w == vis.shape[2]
      ch == vis.shape[3]
  IN  [shape |-> vis.shape,
       data |-> [n \in 1..Len(vis.data) |->
          LET px == (n - 1) \div ch
              a == At2(acc, px \div w, px % w)
              b == At2(bg, px \div w, px % w)
          IN  RAdd(RMul(vis.data[n], a), RMul(b, RSub(R(1), a)))]]

\* Sample images: the values cycle through a pool of samples.
SamplePool == <<R(0), Rat(1, 4), Rat(1, 2), R(1)>>

Pattern(n, stride, offset) ==
  [i \in 1..n |-> SamplePool[(((i - 1) * stride + offset) % Len(SamplePool)) + 1]]

ImagesOf(shape) ==
  {[shape |-> shape, data |-> Pattern(Prod(shape), st, off)] :
     st \in {0, 1}, off \in {0, 2, 3}}

MatteIdle ==
  /\ mt_vis = NoImg /\ mt_acc = NoImg /\ mt_dark = R(0) /\ mt_light = R(0)
  /\ mt_width = 1 /\ mt_pc = "idle" /\ mt_bg = NoImg /\ mt_out = NoImg

MatteInit ==
  /\ \E h \in 1..MaxSide, w \in 1..MaxSide, ch \in {1, 3} :
       /\ mt_vis \in ImagesOf(<<h, w, ch>>)
       /\ mt_acc \in ImagesOf(<<h, w>>)
  /\ \E tones \in {<<Rat(4, 5), R(1)>>, <<R(0), R(1)>>} :
       mt_dark = tones[1] /\ mt_light = tones[2]
  /\ mt_width \in 1..MaxTile
  /\ mt_pc = "call" /\ mt_bg = NoImg /\ mt_out = NoImg

Matte ==
  /\ UNCHANGED notMatte
  /\ mt_pc = "call"
  /\ mt_bg' = Checkerboard(mt_acc.shape[1], mt_acc.shape[2], mt_dark, mt_light,
                           mt_width)
  /\ mt_out' = matte(mt_vis, mt_acc, mt_bg')
  /\ mt_pc' = "done"
  /\ UNCHANGED <<mt_vis, mt_acc, mt_dark, mt_light, mt_width>>

MatteNext == Matte

Rows(img) == 0..(img.shape[1] - 1)
Cols(img) == 0..(img.shape[2] - 1)
Chans(img) == 0..(img.shape[3] - 1)

\* ((r // width) % 2) XOR ((c // width) % 2)
TileXor(r, c, width) == ((r \div width) % 2) # ((c \div width) % 2)

AllAcc(a) == \A n \in 1..Len(mt_acc.data) : mt_acc.data[n] = a

\* C4 (as stated): the background pixel (r, c) is light when
\* ((r // width) % 2) XOR ((c // width) % 2) is false and dark when it is true.
C4_LightWhereXorFalse ==
  mt_pc = "done" =>
    \A r \in Rows(mt_bg), c \in Cols(mt_bg) :
      At2(mt_bg, r, c) = IF TileXor(r, c, mt_width) THEN mt_dark ELSE mt_light

\* C4 (amended): the background pixel (r, c) is light when
\* ((r // width) % 2) XOR ((c // width) % 2) is true and dark when it is
\* false; with acc all zeros matte returns that checkerboard in every channel,
\* and with acc all ones it returns vis unchanged.
C4_LightWhereXorTrue ==
  mt_pc = "done" =>
    /\ \A r \in Rows(mt_bg), c \in Cols(mt_bg) :
         At2(mt_bg, r, c) = IF TileXor(r, c, mt_width) THEN mt_light ELSE mt_dark
    /\ AllAcc(R(0)) =>
         /\ mt_out.shape = mt_vis.shape
         /\ \A r \in Rows(mt_out), c \in Cols(mt_out), ch \in Chans(mt_out) :
              At3(mt_out, r, c, ch) = At2(mt_bg, r, c)
    /\ AllAcc(R(1)) => mt_out = mt_vis

C4_Witness ==
  /\ mt_pc = "done"
  /\ AllAcc(R(0))
  /\ mt_width = 2
  /\ mt_vis.shape = <<4, 3, 3>>
  /\ At3(mt_out, 3, 0, 2) = mt_light
  /\ At3(mt_out, 0, 0, 0) = mt_dark
  /\ mt_dark # mt_light

(***************************************************************************)
(* visualize_cmap (internal/vis.py).                                       *)
(***************************************************************************)
\* Bounds of the model of visualize_cmap.
MaxCmapSide == 2
MaxChan == 4

None == <<>>

\* torch.finfo(torch.float32).eps = 2^-23
EpsDen == 8388608
Eps == <<1, EpsDen>>

\* Python truth of None, of a number and of a one-element tensor.
Truthy(v) == v # None /\ v[1] # 0

\* `a or b`
Or_NoneOnly(a, b) == IF a # None THEN a ELSE b

Or(a, b) == IF Truthy(a) THEN a ELSE b

Curve(fn, v) == IF fn = "neg" THEN <<-v[1], v[2]>> ELSE v

\* torch.mod(v, m) / m: the remainder has the sign of m.
RFloor(a) == a[1] \div a[2]
ModScale(v, m) == RDiv(RSub(v, RMul(R(RFloor(RDiv(v, m))), m)), m)

\* torch.nan_to_num(torch.clip((v - min(lo, hi)) / abs(hi - lo), 0, 1)), with
\* the floating-point quotients by zero: x/0 is +inf, -inf or nan.
Scale(v, lo, hi) ==
  LET n == RSub(v, RMin(lo, hi))
      d == RAbs(RSub(hi, lo))
  IN  IF d[1] = 0 THEN (IF n[1] > 0 THEN R(1) ELSE R(0))
      ELSE RClip(RDiv(n, d), R(0), R(1))

\* colormap(value)[:, :, :3] of an ideal gray ramp: each sample becomes its
\* three equal channels.
Colorize(value) ==
  [shape |-> value.shape \o <<3>>,
   data |-> [n \in 1..(3 * Len(value.data)) |-> value.data[((n - 1) \div 3) + 1]]]

\* Lines 108-113: the checks of a value passed with no colormap.
RawValueError_Intended(shape) ==
  IF Len(shape) # 3 \/ shape[Len(shape)] # 3 THEN "ValueError" ELSE "none"

RawValueError(shape) ==
  IF Len(shape) # 3 THEN "ValueError"
  ELSE IF shape[Len(shape)] # 3 THEN "TypeError"   \* len() of an int
  ELSE "none"

CmapShapes ==
  UNION {{<<h * w>>, <<h, w>>} \cup {<<h, w, c>> : c \in 1..MaxChan} :
           h \in 1..MaxCmapSide, w \in 1..MaxCmapSide}

UnitPool == <<R(1), R(0)>>

\* Weight maps: all ones, and zeros and ones in turn.
WeightsOf(shape) ==
  {[shape |-> shape,
    data |-> [i \in 1..Prod(shape) |-> UnitPool[((i * st) % 2) + 1]]] :
     st \in {1, 2}}

\* Values: a ramp of samples, and the constant 1/2.
ValuesOf(shape) ==
  {[shape |-> shape, data |-> Pattern(Prod(shape), st, 2 - 2 * st)] : st \in {0, 1}}

CmapIdle ==
  /\ cm_value = NoImg /\ cm_weight = NoImg /\ cm_colormap = "none"
  /\ cm_lo = None /\ cm_hi = None /\ cm_percentile = R(0)
  /\ cm_curve = "identity" /\ cm_modulus = None /\ cm_matte = FALSE
  /\ cm_tie = "asc" /\ cm_pc = "idle" /\ cm_lo_used = None
  /\ cm_hi_used = None /\ cm_scaled = NoImg /\ cm_out = NoImg
  /\ cm_err = "none"

CmapInit ==
  /\ \E shape \in CmapShapes :
       /\ cm_value \in ValuesOf(shape)
       /\ \E h \in 1..MaxCmapSide, w \in 1..MaxCmapSide :
            /\ h * w = Prod(shape) \/ (Len(shape) = 3 /\ shape[1] = h /\ shape[2] = w)
            /\ Len(shape) = 2 => shape = <<h, w>>
            /\ cm_weight \in WeightsOf(<<h, w>>)
  /\ cm_colormap \in {"gray", "none"}
  /\ cm_colormap = "gray" => Len(cm_value.shape) = 2
  /\ cm_lo \in {None, R(0), R(1)}
  /\ cm_hi \in {None, R(0), R(1)}
  /\ cm_percentile \in {R(99), R(100)}
  /\ cm_curve \in {"identity", "neg"}
  /\ cm_modulus \in {None, Rat(1, 2)}
  /\ cm_matte \in BOOLEAN
  /\ cm_tie \in {"asc", "desc"}
  /\ cm_pc = "call" /\ cm_lo_used = None /\ cm_hi_used = None
  /\ cm_scaled = NoImg /\ cm_out = NoImg /\ cm_err = "none"

\* Lines 85-95: the automatic bounds, the choice of lo and hi, the curve.
CmapBounds ==
  /\ UNCHANGED notCmap
  /\ cm_pc = "call"
  /\ LET auto == weighted_percentile(cm_value.data, cm_weight.data,
                                     PercentilePair(cm_percentile), FALSE, cm_tie)
         lo == Or(cm_lo, RSub(auto[1], Eps))
         hi == Or(cm_hi, RAdd(auto[2], Eps))
     IN  /\ cm_lo_used' = Curve(cm_curve, lo)
         /\ cm_hi_used' = Curve(cm_curve, hi)
  /\ cm_pc' = "bounds"
  /\ UNCHANGED <<cm_value, cm_weight, cm_colormap, cm_lo, cm_hi, cm_percentile,
                 cm_curve, cm_modulus, cm_matte, cm_tie, cm_scaled, cm_out,
                 cm_err>>

\* Lines 97-103: wrap by the modulus, or scale to [0, 1] between lo and hi.
CmapScale ==
  /\ UNCHANGED notCmap
  /\ cm_pc = "bounds"
  /\ cm_scaled' =
       [shape |-> cm_value.shape,
        data |-> [n \in 1..Len(cm_value.data) |->
           LET v == Curve(cm_curve, cm_value.data[n])
           IN  IF Truthy(cm_modulus) THEN ModScale(v, cm_modulus)
               ELSE Scale(v, cm_lo_used, cm_hi_used)]]
  /\ cm_pc' = "scaled"
  /\ UNCHANGED <<cm_value, cm_weight, cm_colormap, cm_lo, cm_hi, cm_percentile,
                 cm_curve, cm_modulus, cm_matte, cm_tie, cm_lo_used, cm_hi_used,
                 cm_out, cm_err>>

\* Lines 105-116: colorize, or check the raw value; matte; return.
CmapColorize ==
  /\ UNCHANGED notCmap
  /\ cm_pc = "scaled"
  /\ LET err == IF cm_colormap = "none" THEN RawValueError(cm_scaled.shape)
                ELSE "none"
         colorized == IF cm_colormap = "none" THEN cm_scaled
                      ELSE Colorize(cm_scaled)
     IN  IF err # "none"
           THEN /\ cm_err' = err
                /\ cm_pc' = "failed"
                /\ cm_out' = cm_out
           ELSE /\ cm_out' =
                     IF cm_matte
                       THEN matte(colorized, cm_weight,
                                  Checkerboard(cm_weight.shape[1],
                                               cm_weight.shape[2],
                                               Rat(4, 5), R(1), 8))
                       ELSE colorized
                /\ cm_pc' = "done"
                /\ cm_err' = cm_err
  /\ UNCHANGED <<cm_value, cm_weight, cm_colormap, cm_lo, cm_hi, cm_percentile,
                 cm_curve, cm_modulus, cm_matte, cm_tie, cm_lo_used, cm_hi_used,
                 cm_scaled>>

CmapNext == CmapBounds \/ CmapScale \/ CmapColorize

\* C3: with no modulus, a lo and a hi that the caller gave (the value 0
\* included) are the bounds of the normalization: each value is scaled
\* between exactly the supplied lo and hi.
C3_ExplicitBoundsUsed ==
  (/\ cm_pc \in {"bounds", "scaled", "done", "failed"}
   /\ ~Truthy(cm_modulus)) =>
     /\ cm_lo # None => cm_lo_used = Curve(cm_curve, cm_lo)
     /\ cm_hi # None => cm_hi_used = Curve(cm_curve, cm_hi)
     /\ (cm_lo # None /\ cm_hi # None /\ cm_pc # "bounds") =>
          \A n \in 1..Len(cm_value.data) :
            cm_scaled.data[n] = Scale(Curve(cm_curve, cm_value.data[n]),
                                      Curve(cm_curve, cm_lo),
                                      Curve(cm_curve, cm_hi))

\* C6: with no colormap, visualize_cmap fails with the error of its rank
\* check (ValueError) for every value that is not rank 3 with 3 channels, and
\* returns only for a value that is.
C6_ShapeErrorWithoutColormap ==
  (cm_colormap = "none" /\ cm_pc \in {"done", "failed"}) =>
     IF Len(cm_value.shape) = 3 /\ cm_value.shape[3] = 3
       THEN cm_pc = "done" /\ cm_err = "none"
       ELSE cm_pc = "failed" /\ cm_err = "ValueError"

(***************************************************************************)
(* color_correct (internal/image.py).  The pixel values are not modelled:  *)
(* the least-squares solver is an external routine, and whether the        *)
(* coefficients it returns are finite is left open.                        *)
(***************************************************************************)
\* Bounds of the model of color_correct.
MaxColorChan == 4
MaxIters == 3
MaxColorSide == 2

Last(shape) == shape[Len(shape)]

\* Line 86: img.shape[-1] != ref.shape[-1]
ChannelsDiffer_Unchecked(img_shape, ref_shape) == FALSE

ChannelsDiffer(img_shape, ref_shape) == Last(img_shape) # Last(ref_shape)

\* Lines 101-106: the columns of a_mat: for each channel c the products with
\* the channels c.., then the linear terms, then the bias.
RECURSIVE QuadraticCols(_, _)
QuadraticCols(c, nc) == IF c >= nc THEN 0 ELSE (nc - c) + QuadraticCols(c + 1, nc)

FeatureCols(nc) == QuadraticCols(0, nc) + nc + 1

ColorIdle ==
  /\ cc_img_shape = <<>> /\ cc_ref_shape = <<>> /\ cc_num_iters = 0
  /\ cc_pc = "idle" /\ cc_iter = 0 /\ cc_c = 0 /\ cc_a_cols = 0
  /\ cc_built = 0 /\ cc_solved = 0 /\ cc_out_shape = <<>> /\ cc_err = "none"

ColorInit ==
  /\ \E h \in 1..MaxColorSide, w \in 1..MaxColorSide :
     \E ci \in 1..MaxColorChan, cr \in 1..MaxColorChan :
       /\ cc_img_shape = <<h, w, ci>>
       /\ cc_ref_shape = <<h, w, cr>>
  /\ cc_num_iters \in 0..MaxIters
  /\ cc_pc = "call" /\ cc_iter = 0 /\ cc_c = 0 /\ cc_a_cols = 0
  /\ cc_built = 0 /\ cc_solved = 0 /\ cc_out_shape = <<>> /\ cc_err = "none"

\* Lines 86-94: the channel check, then the reshapes and mask0.
ColorCheck ==
  /\ UNCHANGED notColor
  /\ cc_pc = "call"
  /\ IF ChannelsDiffer(cc_img_shape, cc_ref_shape)
       THEN cc_pc' = "failed" /\ cc_err' = "ValueError"
       ELSE cc_pc' = "loop" /\ cc_err' = cc_err
  /\ UNCHANGED <<cc_img_shape, cc_ref_shape, cc_num_iters, cc_iter, cc_c,
                 cc_a_cols, cc_built, cc_solved, cc_out_shape>>

\* Lines 98-107: a pass begins and builds its feature matrix.
BuildFeatures ==
  /\ UNCHANGED notColor
  /\ cc_pc = "loop"
  /\ cc_iter < cc_num_iters
  /\ cc_a_cols' = FeatureCols(Last(cc_img_shape))
  /\ cc_built' = cc_built + 1
  /\ cc_c' = 0
  /\ cc_pc' = "solve"
  /\ UNCHANGED <<cc_img_shape, cc_ref_shape, cc_num_iters, cc_iter, cc_solved,
                 cc_out_shape, cc_err>>

\* Lines 108-121: the solve for channel c, and the assertion on its result.
SolveChannel ==
  /\ UNCHANGED notColor
  /\ cc_pc = "solve"
  /\ cc_c < Last(cc_img_shape)
  /\ cc_solved' = cc_solved + 1
  /\ \E finite \in BOOLEAN :
       IF finite
         THEN cc_c' = cc_c + 1 /\ UNCHANGED <<cc_pc, cc_err>>
         ELSE cc_pc' = "failed" /\ cc_err' = "AssertionError" /\ cc_c' = cc_c
  /\ UNCHANGED <<cc_img_shape, cc_ref_shape, cc_num_iters, cc_iter, cc_a_cols,
                 cc_built, cc_out_shape>>

\* Lines 122-125: the warp is stacked and applied; the pass ends.
ApplyWarp ==
  /\ UNCHANGED notColor
  /\ cc_pc = "solve"
  /\ cc_c >= Last(cc_img_shape)
  /\ cc_iter' = cc_iter + 1
  /\ cc_pc' = "loop"
  /\ UNCHANGED <<cc_img_shape, cc_ref_shape, cc_num_iters, cc_c, cc_a_cols,
                 cc_built, cc_solved, cc_out_shape, cc_err>>

\* Lines 126-127: the loop is exhausted; the image is reshaped and returned.
ColorReturn ==
  /\ UNCHANGED notColor
  /\ cc_pc = "loop"
  /\ cc_iter >= cc_num_iters
  /\ cc_out_shape' = cc_img_shape
  /\ cc_pc' = "done"
  /\ UNCHANGED <<cc_img_shape, cc_ref_shape, cc_num_iters, cc_iter, cc_c,
                 cc_a_cols, cc_built, cc_solved, cc_err>>

ColorNext ==
  ColorCheck \/ BuildFeatures \/ SolveChannel \/ ApplyWarp \/ ColorReturn

ColorEnded == cc_pc \in {"done", "failed"}

\* C7 (as stated): a pair with different channel counts fails with the
\* ValueError before any feature matrix or solve; a pair with equal channel
\* counts raises no such error and runs exactly num_iters passes.
C7_ExactlyNumIters ==
  ColorEnded =>
    IF Last(cc_img_shape) # Last(cc_ref_shape)
      THEN cc_err = "ValueError" /\ cc_built = 0 /\ cc_solved = 0
      ELSE cc_err # "ValueError" /\ cc_iter = cc_num_iters

\* C7 (amended): a pair with different channel counts fails with the
\* ValueError before any feature matrix or solve; a pair with equal channel
\* counts never raises it, a call that returns has run exactly num_iters
\* passes, and a call ended by the assertion on a non-finite solution has run
\* fewer.
C7_ShapeCheckFirst ==
  /\ cc_err = "ValueError" <=>
       (cc_pc = "failed" /\ Last(cc_img_shape) # Last(cc_ref_shape))
  /\ (cc_pc # "call" /\ Last(cc_img_shape) # Last(cc_ref_shape)) =>
       /\ cc_pc = "failed" /\ cc_err = "ValueError"
       /\ cc_built = 0 /\ cc_solved = 0 /\ cc_iter = 0
  /\ cc_pc = "done" =>
       /\ cc_iter = cc_num_iters
       /\ cc_built = cc_num_iters
       /\ cc_solved = cc_num_iters * Last(cc_img_shape)
       /\ cc_out_shape = cc_img_shape
  /\ cc_err = "AssertionError" =>
       /\ cc_pc = "failed"
       /\ cc_iter < cc_num_iters
       /\ cc_built = cc_iter + 1

C7_Witness ==
  /\ cc_pc = "failed"
  /\ cc_err = "ValueError"
  /\ Last(cc_img_shape) = 3
  /\ Last(cc_ref_shape) = 4
  /\ cc_num_iters = 3
  /\ cc_built = 0

(***************************************************************************)
(* visualize_rays (internal/vis.py).  A tensor is [shape, data], data its  *)
(* row-major flat sequence.  The stabilising eps of the accumulated color  *)
(* (line 143) is left out where the accumulated weight is positive; where  *)
(* it is zero the quotient is eps / (2 eps) = 1/2.                         *)
(***************************************************************************)
\* Bounds of the model of visualize_rays.
MaxLevels == 2
MaxRays == 2
MaxSamples == 2
MaxSeed == 2
MaxRes == 5

Pad == <<>>

RECURSIVE Flatten(_)
Flatten(rows) ==
  IF Len(rows) = 0 THEN <<>>
  ELSE Flatten(SubSeq(rows, 1, Len(rows) - 1)) \o rows[Len(rows)]

\* torch.linspace(lo, hi, n)
Linspace(lo, hi, n) ==
  AsTuple([i \in 1..n |-> RAdd(lo, RDiv(RMul(RSub(hi, lo), R(i - 1)), R(n - 1)))])

Overlap(a1, b1, a2, b2) == RMax(R(0), RSub(RMin(b1, b2), RMax(a1, a2)))

\* stepfun.resample(t, tp, vp, use_avg=True) for a step function whose edges
\* tp span t: the average of the step function over each bin of t.
Resample(t, tp, vp) ==
  LET RECURSIVE mass(_, _)
      mass(j, i) ==
        IF i = 0 THEN R(0)
        ELSE RAdd(mass(j, i - 1),
                  RMul(vp[i], Overlap(tp[i], tp[i + 1], t[j], t[j + 1])))
  IN  AsTuple([j \in 1..(Len(t) - 1) |->
                 RDiv(mass(j, Len(vp)), RSub(t[j + 1], t[j]))])

\* Line 143: (rw_csum + eps) / (w_csum + 2 * eps)
StableDiv(rw, w) == IF w[1] = 0 THEN Rat(1, 2) ELSE RDiv(rw, w)

\* One channel of the colors of a ray.
Channel(r, ch) == AsTuple([i \in 1..Len(r) |-> r[i][ch]])

Times(a, b) == AsTuple([i \in 1..Len(a) |-> RMul(a[i], b[i])])

\* Lines 138-145 for one ray: the resampled weights.
RayAlpha(d, w, accumulate, dist_vis) ==
  Resample(dist_vis, d, IF accumulate THEN CumSum(w) ELSE w)

\* Lines 138-144 for one ray: the resampled colors, one tuple per bin.
RayColor(d, w, r, accumulate, dist_vis) ==
  LET nch == Len(r[1])
      chan(ch) ==
        IF accumulate
          THEN LET w_csum == CumSum(w)
                   rw_csum == CumSum(Times(Channel(r, ch), w))
               IN  AsTuple([i \in 1..Len(w) |-> StableDiv(rw_csum[i], w_csum[i])])
          ELSE Channel(r, ch)
      res == AsTuple([ch \in 1..nch |-> Resample(dist_vis, d, chan(ch))])
  IN  AsTuple([j \in 1..(Len(dist_vis) - 1) |->
                 AsTuple([ch \in 1..nch |-> res[ch][j]])])

\* torch.tile(t, (1, ..., 1, rep)) on the last dimension of t.
TileLast(t, rep) ==
  LET n == t.shape[Len(t.shape)]
  IN  [shape |-> [t.shape EXCEPT ![Len(t.shape)] = n * rep],
       data |-> AsTuple([k \in 1..(Len(t.data) * rep) |->
          t.data[((k - 1) \div (n * rep)) * n + (((k - 1) % (n * rep)) % n) + 1]])]

\* t.reshape((-1,) + rest)
Reshape(t, rest) ==
  [shape |-> <<Len(t.data) \div Prod(rest)>> \o rest, data |-> t.data]

\* torch.cat([t, torch.zeros_like(t[:, :1])], dim=1) of a [R, S, N] tensor,
\* zero standing for the element that fills the new strip.
CatStrip(t, zero) ==
  LET s == t.shape[2]
      n == t.shape[3]
  IN  [shape |-> <<t.shape[1], s + 1, n>>,
       data |-> AsTuple([k \in 1..(t.shape[1] * (s + 1) * n) |->
          LET blk == (k - 1) \div ((s + 1) * n)
              off == (k - 1) % ((s + 1) * n)
          IN  IF off < s * n THEN t.data[blk * s * n + off + 1] ELSE zero])]

\* Line 157: rep = resolution // (shape[0] * shape[1] + 1)
RepCount(resolution, rays, levels) == resolution \div (rays * levels + 1)

\* Lines 160-172 on one of the two tensors, rep >= 1.
TileRows(t, rep, zero) ==
  LET n == t.shape[3]
      stride == rep * t.shape[2]
      flat == Reshape(TileLast(t, rep), <<n>>)
      strips == CatStrip(Reshape(flat, <<stride, n>>), zero)
  IN  Reshape(strips, <<n>>)

\* t[:-1] and what it removes.
SliceLen(t) == Prod(Tail(t.shape))
DropLast_None(t) == t

DropLast(t) ==
  [shape |-> [t.shape EXCEPT ![1] = @ - 1],
   data |-> SubSeq(t.data, 1, Len(t.data) - SliceLen(t))]

LastSlice(t) == SubSeq(t.data, Len(t.data) - SliceLen(t) + 1, Len(t.data))

\* Lines 175-176: vis_rgb * vis_alpha[..., None] + (bg_color * (1 - vis_alpha))[..., None]
Composite(rgb, alpha, bg_color) ==
  [shape |-> rgb.shape,
   data |-> AsTuple([k \in 1..Len(rgb.data) |->
      AsTuple([ch \in 1..Len(rgb.data[k]) |->
         RAdd(RMul(rgb.data[k][ch], alpha.data[k]),
              RMul(bg_color, RSub(R(1), alpha.data[k])))])])]

\* Sample bundles: every ray of every level has n samples on edges that span
\* dist_range = (0, 1); weights and colors cycle through sample pools.
WeightPool == <<Rat(1, 2), R(1), R(0)>>

RayDist(n) == AsTuple([i \in 1..(n + 1) |-> Rat(i - 1, n)])

RaysIdle ==
  /\ ry_dist = <<>> /\ ry_weights = <<>> /\ ry_rgbs = <<>>
  /\ ry_dist_range = <<R(0), R(1)>> /\ ry_accumulate = FALSE
  /\ ry_renormalize = FALSE /\ ry_resolution = 1 /\ ry_bg_color = R(0)
  /\ ry_pc = "idle" /\ ry_rgb = NoImg /\ ry_alpha = NoImg /\ ry_src = NoImg
  /\ ry_vis = NoImg /\ ry_dropped = <<>> /\ ry_err = "none"

RaysInit ==
  /\ \E levels \in 1..MaxLevels, rays \in 1..MaxRays, n \in 1..MaxSamples,
        seed \in 0..MaxSeed, nch \in {1, 3} :
       /\ ry_dist = [l \in 1..levels |-> [r \in 1..rays |-> RayDist(n)]]
       /\ ry_weights = [l \in 1..levels |-> [r \in 1..rays |->
            [i \in 1..n |-> WeightPool[((seed + l + 2 * r + i) % 3) + 1]]]]
       /\ ry_rgbs = [l \in 1..levels |-> [r \in 1..rays |->
            [i \in 1..n |-> [ch \in 1..nch |->
               SamplePool[((seed + r + i + ch) % 4) + 1]]]]]
  /\ ry_dist_range = <<R(0), R(1)>>
  /\ ry_accumulate \in BOOLEAN
  /\ ry_renormalize \in BOOLEAN
  /\ ry_resolution \in 1..MaxRes
  /\ ry_bg_color \in {Rat(4, 5), R(0)}
  /\ ry_pc = "call" /\ ry_rgb = NoImg /\ ry_alpha = NoImg /\ ry_src = NoImg
  /\ ry_vis = NoImg /\ ry_dropped = <<>> /\ ry_err = "none"

\* Lines 133-149: resample every ray of every level and stack: the first
\* dimension is the ray, the second the level, the third the bin.
RaysResample ==
  /\ UNCHANGED notRays
  /\ ry_pc = "call"
  /\ LET levels == Len(ry_dist)
         rays == Len(ry_dist[1])
         dist_vis == Linspace(ry_dist_range[1], ry_dist_range[2], ry_resolution + 1)
         shape == <<rays, levels, ry_resolution>>
         \* row k (from 0) of the stack is ray k // levels, level k % levels
         ray(k) == ((k - 1) \div levels) + 1
         lev(k) == ((k - 1) % levels) + 1
     IN  /\ ry_alpha' =
              [shape |-> shape,
               data |-> Flatten(AsTuple([k \in 1..(rays * levels) |->
                  RayAlpha(ry_dist[lev(k)][ray(k)], ry_weights[lev(k)][ray(k)],
                           ry_accumulate, dist_vis)]))]
         /\ ry_rgb' =
              [shape |-> shape,
               data |-> Flatten(AsTuple([k \in 1..(rays * levels) |->
                  RayColor(ry_dist[lev(k)][ray(k)], ry_weights[lev(k)][ray(k)],
                           ry_rgbs[lev(k)][ray(k)], ry_accumulate, dist_vis)]))]
         /\ ry_src' =
              [shape |-> shape,
               data |-> Flatten(AsTuple([k \in 1..(rays * levels) |->
                  AsTuple([j \in 1..ry_resolution |-> <<ray(k), lev(k)>>])]))]
  /\ ry_pc' = "stacked"
  /\ UNCHANGED <<ry_dist, ry_weights, ry_rgbs, ry_dist_range, ry_accumulate,
                 ry_renormalize, ry_resolution, ry_bg_color, ry_vis, ry_dropped,
                 ry_err>>

\* Lines 151-154: torch.max(torch.finfo(torch.float32).eps, torch.max(vis_alpha))
\* passes a Python float where torch.max takes a tensor, which raises TypeError.
RaysRenormalize ==
  /\ UNCHANGED notRays
  /\ ry_pc = "stacked"
  /\ IF ry_renormalize
       THEN ry_pc' = "failed" /\ ry_err' = "TypeError"
       ELSE ry_pc' = "scaled" /\ ry_err' = ry_err
  /\ UNCHANGED <<ry_dist, ry_weights, ry_rgbs, ry_dist_range, ry_accumulate,
                 ry_renormalize, ry_resolution, ry_bg_color, ry_rgb, ry_alpha,
                 ry_src, ry_vis, ry_dropped>>

\* Lines 156-172: tile the rows up to the resolution, with a strip of
\* background after the levels of each ray.  With rep = 0 the tiled tensor is
\* empty and reshape((-1,) + ...) raises RuntimeError.
RaysTile ==
  /\ UNCHANGED notRays
  /\ ry_pc = "scaled"
  /\ IF ry_resolution > ry_rgb.shape[1]
       THEN LET rep == RepCount(ry_resolution, ry_rgb.shape[1], ry_rgb.shape[2])
            IN  IF rep = 0
                  THEN /\ ry_pc' = "failed"
                       /\ ry_err' = "RuntimeError"
                       /\ UNCHANGED <<ry_rgb, ry_alpha, ry_src>>
                  ELSE /\ ry_rgb' = TileRows(ry_rgb, rep,
                            [ch \in 1..Len(ry_rgb.data[1]) |-> R(0)])
                       /\ ry_alpha' = TileRows(ry_alpha, rep, R(0))
                       /\ ry_src' = TileRows(ry_src, rep, Pad)
                       /\ ry_pc' = "tiled"
                       /\ ry_err' = ry_err
       ELSE /\ ry_pc' = "tiled"
            /\ UNCHANGED <<ry_rgb, ry_alpha, ry_src, ry_err>>
  /\ UNCHANGED <<ry_dist, ry_weights, ry_rgbs, ry_dist_range, ry_accumulate,
                 ry_renormalize, ry_resolution, ry_bg_color, ry_vis, ry_dropped>>

\* Lines 174-181: matte over the background, remove the final row, return.
RaysComposite ==
  /\ UNCHANGED notRays
  /\ ry_pc = "tiled"
  /\ ry_vis' = DropLast(Composite(ry_rgb, ry_alpha, ry_bg_color))
  /\ ry_alpha' = DropLast(ry_alpha)
  /\ ry_dropped' = LastSlice(ry_src)
  /\ ry_src' = DropLast(ry_src)
  /\ ry_pc' = "done"
  /\ UNCHANGED <<ry_dist, ry_weights, ry_rgbs, ry_dist_range, ry_accumulate,
                 ry_renormalize, ry_resolution, ry_bg_color, ry_rgb, ry_err>>

RaysNext == RaysResample \/ RaysRenormalize \/ RaysTile \/ RaysComposite

RaysEnded == ry_pc \in {"done", "failed"}

\* C8: every value of the alpha image that visualize_rays returns lies in
\* [0, 1], and a call with renormalize returns an alpha image whose largest
\* value is exactly 1.
C8_AlphaInUnitRange ==
  /\ ry_pc = "done" =>
       \A k \in 1..Len(ry_alpha.data) :
         RLe(R(0), ry_alpha.data[k]) /\ RLe(ry_alpha.data[k], R(1))
  /\ (RaysEnded /\ ry_renormalize) =>
       /\ ry_pc = "done"
       /\ \E k \in 1..Len(ry_alpha.data) : ry_alpha.data[k] = R(1)

\* C10: the final row that visualize_rays removes is always a background
\* padding row inserted by the tiling step, with zero alpha: no element
\* resampled from a ray is removed.
C10_DroppedRowIsPadding ==
  ry_pc = "done" => \A k \in 1..Len(ry_dropped) : ry_dropped[k] = Pad

\* C11: whenever visualize_rays takes the tiling branch (resolution greater
\* than the number R of stacked rays, L being the number of levels), the
\* repeat count rep = resolution // (R * L + 1) is at least 1, the tile and
\* reshape steps succeed, and they yield R * (rep * L + 1) rows.
C11_RepAtLeastOne ==
  (/\ ry_pc \in {"tiled", "failed"}
   /\ ry_err # "TypeError"
   /\ ry_resolution > Len(ry_dist[1])) =>
     LET rays == Len(ry_dist[1])
         levels == Len(ry_dist)
         rep == RepCount(ry_resolution, rays, levels)
     IN  /\ rep >= 1
         /\ ry_pc = "tiled"
         /\ ry_rgb.shape[1] = rays * (rep * levels + 1)
         /\ ry_alpha.shape[1] = rays * (rep * levels + 1)

(***************************************************************************)
(* Specifications: one per function, the others idle.                      *)
(***************************************************************************)
InitVideo == VideoInit /\ PctIdle /\ MatteIdle /\ CmapIdle /\ ColorIdle /\ RaysIdle

SpecVideo == InitVideo /\ [][VideoNext]_vars

InitPercentile == PctInit /\ VideoIdle /\ MatteIdle /\ CmapIdle /\ ColorIdle /\ RaysIdle

SpecPercentile == InitPercentile /\ [][PctNext]_vars

InitMatte == MatteInit /\ VideoIdle /\ PctIdle /\ CmapIdle /\ ColorIdle /\ RaysIdle

SpecMatte == InitMatte /\ [][MatteNext]_vars

InitCmap == CmapInit /\ VideoIdle /\ PctIdle /\ MatteIdle /\ ColorIdle /\ RaysIdle

SpecCmap == InitCmap /\ [][CmapNext]_vars

InitColor == ColorInit /\ VideoIdle /\ PctIdle /\ MatteIdle /\ CmapIdle /\ RaysIdle

SpecColor == InitColor /\ [][ColorNext]_vars

InitRays ==
  RaysInit /\ VideoIdle /\ PctIdle /\ MatteIdle /\ CmapIdle /\ ColorIdle

SpecRays == InitRays /\ [][RaysNext]_vars

====
